---- MODULE Spec2Model ----
(***************************************************************************)
(* Model of the CypherPoker.JS lobby (src/web/scripts/CypherPoker.js):     *)
(* table creation and announcement, join negotiation, table registry,      *)
(* announcement cache and the peer-to-peer message dispatcher.             *)
(*                                                                         *)
(* Every peer runs one CypherPoker instance.  The transport (p2p) is the   *)
(* variable net: one FIFO channel per ordered pair of peers.               *)
(***************************************************************************)
EXTENDS Integers, Sequences, FiniteSets, TLC

\* ------------------------------------------------------------------ bounds

\* Largest numeric `players` argument given to createTable.
MaxSlots == 2
\* Calls the applications make in one behaviour, over all peers: createTable
\* calls, joinTable calls that record a request, leaveJoinedTable calls that
\* leave a table.
MaxTables == 2
MaxJoins == 2
MaxLeaves == 1
\* An application operation or a beacon tick sends only on channels that hold
\* fewer messages than this (message handlers are never blocked).
MaxQueue == 1
MaxQuota == 2
MaxCacheSize == 2
MaxCached == 3
\* The most open seats of the table of the three peers.
MaxTrioSlots == 3

\* ------------------------------------------------------- values and inputs

Peers == {"A", "B", "C"}
\* The peers that act in the specifications of two peers.
Pair == {"A", "B"}
Wildcard == "*"
TableNames == {"n1"}
TableIDs == {"t1", "t2"}
\* null, as an argument or a default.
Null == "null"

CoreFields == {"tableName", "tableID", "ownerPID", "requiredPID", "joinedPID", "tableInfo"}

VARIABLES
    connected,          \* _connected
    joinedTables,       \* _joinedTables
    joinTableRequests,  \* _joinTableRequests
    openTables,         \* _openTables
    announcedTables,    \* _announcedTables
    captureNewTables,   \* _newTableCapture
    maxCapturedTables,  \* _maxCapturedTables
    maxCapturesPerPeer, \* _maxCapturesPerPeer
    beacons,            \* running setInterval timers: beaconID -> table object
    timers,             \* armed setTimeout timers: joinTimeoutID -> table object
    net,                \* messages in flight, <<from, to>> -> FIFO queue
    calls,              \* application calls made so far, by operation
    out                 \* what the last step returned, emitted and sent

vars == <<connected, joinedTables, joinTableRequests, openTables, announcedTables,
          captureNewTables, maxCapturedTables, maxCapturesPerPeer, beacons, timers,
          net, calls, out>>

\* ----------------------------------------------------------------- helpers

\* A property read of a JavaScript object: absent fields read as undefined.
Has(o, f) == f \in DOMAIN o

\* isValidTable: the six checks, in the code's order.
isValidTable(tableObj) ==
    /\ Has(tableObj, "ownerPID") /\ tableObj.ownerPID # ""
    /\ Has(tableObj, "tableID") /\ tableObj.tableID # ""
    /\ Has(tableObj, "tableName")
    /\ Has(tableObj, "requiredPID")
    /\ Has(tableObj, "joinedPID")
    /\ Has(tableObj, "tableInfo") /\ tableObj.tableInfo # ""

\* copyTable: the six core properties of the source, nothing else.
copyTable(sourceTable) ==
    [f \in (CoreFields \cap DOMAIN sourceTable) |-> sourceTable[f]]

\* buildCPMessage followed by copyTable(tableObj, message).
buildCPMessage(messageType, tableObj) ==
    [f \in ({"cpMsg"} \cup (CoreFields \cap DOMAIN tableObj)) |->
        IF f = "cpMsg" THEN messageType ELSE tableObj[f]]

\* createTablePIDList that keeps the local peer.
createTablePIDListAll(self, PIDList) == PIDList

\* createTablePIDList: a copy of PIDList without the local peer.
createTablePIDList(self, PIDList) ==
    SelectSeq(PIDList, LAMBDA pid : pid # self)

Range(s) == {s[i] : i \in 1..Len(s)}

\* splice(i, 1) of an array (i is 1-based here).
Splice(s, i) == [j \in 1..(Len(s) - 1) |-> IF j < i THEN s[j] ELSE s[j + 1]]

\* The smallest timer id not in use.
FreshID(used) == CHOOSE n \in 1..(Cardinality(used) + 1) :
                    n \notin used /\ \A m \in 1..(n - 1) : m \in used

\* p2p.send(data, recipients) of a connected sender: one copy queued per
\* connected recipient.
Deliverable(conn, from, recipients) ==
    {to \in Range(recipients) : conn[from] /\ conn[to] /\ to # from}

p2pSend(n, conn, from, data, recipients) ==
    [ch \in DOMAIN n |->
        IF ch[1] = from /\ ch[2] \in Deliverable(conn, from, recipients)
        THEN Append(n[ch], data) ELSE n[ch]]

\* p2p.broadcast(data) of a connected sender: every other connected peer.
BroadcastList(conn, from) == {to \in Peers : conn[from] /\ conn[to] /\ to # from}

p2pBroadcast(n, conn, from, data) ==
    [ch \in DOMAIN n |->
        IF ch[1] = from /\ ch[2] \in BroadcastList(conn, from)
        THEN Append(n[ch], data) ELSE n[ch]]

\* Room in every channel the sender is about to use.
Room(from, tos) == \A to \in tos : Len(net[<<from, to>>]) < MaxQueue

\* The observable outcome of a step: the operation or message kind, the peer
\* it ran at, its argument, what it returned (result, and value when it returns
\* a table), the events it dispatched and the p2p calls it made.
Outcome(op, p, arg, result, value, events, sent) ==
    [op |-> op, peer |-> p, arg |-> arg, result |-> result, value |-> value,
     events |-> events, sent |-> sent]

NoOut == Outcome("none", "", <<>>, "", <<>>, <<>>, <<>>)

\* ------------------------------------------------------------- constructor

Init ==
    /\ connected = [p \in Peers |-> FALSE]
    /\ joinedTables = [p \in Peers |-> <<>>]
    /\ joinTableRequests = [p \in Peers |-> <<>>]
    /\ openTables = [p \in Peers |-> FALSE]
    /\ announcedTables = [p \in Peers |-> <<>>]
    /\ captureNewTables = [p \in Peers |-> FALSE]
    /\ maxCapturedTables = [p \in Peers |-> 99]
    /\ maxCapturesPerPeer = [p \in Peers |-> 5]
    /\ beacons = [p \in Peers |-> {}]
    /\ timers = [p \in Peers |-> {}]
    /\ net = [ch \in Peers \X Peers |-> <<>>]
    /\ calls = [create |-> 0, join |-> 0, leave |-> 0]
    /\ out = NoOut

\* start(): the transport connected.
Start(p) ==
    /\ ~connected[p]
    /\ connected' = [connected EXCEPT ![p] = TRUE]
    /\ out' = Outcome("start", p, <<>>, "", <<>>, <<>>, <<>>)
    /\ UNCHANGED <<joinedTables, joinTableRequests, openTables, announcedTables,
                   captureNewTables, maxCapturedTables, maxCapturesPerPeer,
                   beacons, timers, net, calls>>

\* set captureNewTables(captureSet)
SetCaptureNewTables(p, captureSet) ==
    /\ captureNewTables[p] # captureSet
    /\ captureNewTables' = [captureNewTables EXCEPT ![p] = captureSet]
    /\ out' = Outcome("captureNewTables", p, <<>>, "", <<>>, <<>>, <<>>)
    /\ UNCHANGED <<connected, joinedTables, joinTableRequests, openTables, announcedTables,
                   maxCapturedTables, maxCapturesPerPeer, beacons, timers, net, calls>>

\* set maxCapturedTables(maxSet)
SetMaxCapturedTables(p, maxSet) ==
    /\ maxCapturedTables[p] # maxSet
    /\ maxCapturedTables' = [maxCapturedTables EXCEPT ![p] = maxSet]
    /\ out' = Outcome("maxCapturedTables", p, <<>>, "", <<>>, <<>>, <<>>)
    /\ UNCHANGED <<connected, joinedTables, joinTableRequests, openTables, announcedTables,
                   captureNewTables, maxCapturesPerPeer, beacons, timers, net, calls>>

\* set maxCapturesPerPeer(maxSet)
SetMaxCapturesPerPeer(p, maxSet) ==
    /\ maxCapturesPerPeer[p] # maxSet
    /\ maxCapturesPerPeer' = [maxCapturesPerPeer EXCEPT ![p] = maxSet]
    /\ out' = Outcome("maxCapturesPerPeer", p, <<>>, "", <<>>, <<>>, <<>>)
    /\ UNCHANGED <<connected, joinedTables, joinTableRequests, openTables, announcedTables,
                   captureNewTables, maxCapturedTables, beacons, timers, net, calls>>

\* ------------------------------------------------- createTable, announceTable

\* The `players` argument: a number of wildcard seats, or an explicit list.
PlayersArgs == {[num |-> n] : n \in 0..MaxSlots} \cup {[list |-> <<"B">>]}

\* requiredFromPlayers with the loop bound off by one.
requiredFromPlayersShort(players) ==
    IF Has(players, "num") THEN [count \in 1..(players.num - 1) |-> Wildcard]
    ELSE players.list

\* createTable: requiredPID from the `players` argument.
requiredFromPlayers(players) ==
    IF Has(players, "num") THEN [count \in 1..players.num |-> Wildcard]
    ELSE players.list

\* tableObj.beaconID; 0 stands for undefined.
beaconIDOf(tableObj) == IF Has(tableObj, "beaconID") THEN tableObj.beaconID ELSE 0

BeaconIDs(p) == {beaconIDOf(b) : b \in beacons[p]}
             \cup {beaconIDOf(joinedTables[p][i]) : i \in 1..Len(joinedTables[p])}

\* announceTable without the test of requiredPID.
announceTableAlways(p, tableObj, bs, n, conn) ==
    [beacons |-> bs,
     net |-> p2pBroadcast(n, conn, p, buildCPMessage("newtable", tableObj)),
     sent |-> <<[data |-> buildCPMessage("newtable", tableObj), to |-> <<"*">>]>>]

\* announceTable(tableObj, context): what it does to the interval timers and
\* to the network; `sent` is the list of p2p calls it makes.
announceTable(p, tableObj, bs, n, conn) ==
    IF Len(tableObj.requiredPID) = 0
    THEN [beacons |-> {b \in bs : beaconIDOf(b) # beaconIDOf(tableObj)},
          net |-> n, sent |-> <<>>]
    ELSE [beacons |-> bs,
          net |-> p2pBroadcast(n, conn, p, buildCPMessage("newtable", tableObj)),
          sent |-> <<[data |-> buildCPMessage("newtable", tableObj), to |-> <<"*">>]>>]

\* newTableObj without the push of the local peer onto joinedPID.
newTableObjNotJoined(p, tableName, players, tableID, beaconID) ==
    [tableID |-> tableID, tableName |-> tableName, ownerPID |-> p,
     requiredPID |-> requiredFromPlayers(players), joinedPID |-> <<>>,
     tableInfo |-> "info", beaconID |-> beaconID]

\* createTable: the new table object.
newTableObj(p, tableName, players, tableID, beaconID) ==
    [tableID |-> tableID, tableName |-> tableName, ownerPID |-> p,
     requiredPID |-> requiredFromPlayers(players), joinedPID |-> <<p>>,
     tableInfo |-> "info", beaconID |-> beaconID]

\* The table object of a beacon is the object held by the registry: a change
\* made in place to the one (splice, push) is a change of the other.
syncBeacon(bs, old, new) ==
    IF beaconIDOf(old) = 0 THEN bs
    ELSE {IF beaconIDOf(b) = beaconIDOf(old) THEN new ELSE b : b \in bs}

\* The ids of the tables p created and still holds or announces: a table ID
\* is unique per peer.
OwnTableIDs(p) ==
    {t.tableID : t \in {u \in Range(joinedTables[p]) \cup beacons[p] : u.ownerPID = p}}

CreateTable(p, tableName, players, tableID, activateBeacon) ==
    /\ calls.create < MaxTables
    /\ tableID \notin OwnTableIDs(p)
    /\ Room(p, IF activateBeacon THEN BroadcastList(connected, p) ELSE {})
    /\ IF ~connected[p]
       THEN /\ out' = Outcome("createTable", p,
                               [tableName |-> tableName, players |-> players,
                                tableID |-> tableID, activateBeacon |-> activateBeacon],
                               "thrown", <<>>, <<>>, <<>>)
            /\ UNCHANGED <<joinedTables, openTables, beacons, net, calls>>
       ELSE LET t == newTableObj(p, tableName, players, tableID,
                                 IF activateBeacon THEN FreshID(BeaconIDs(p)) ELSE 0)
                a == IF activateBeacon
                     THEN announceTable(p, t, beacons[p] \cup {t}, net, connected)
                     ELSE [beacons |-> beacons[p], net |-> net, sent |-> <<>>]
            IN  /\ joinedTables' = [joinedTables EXCEPT ![p] = Append(@, t)]
                /\ openTables' = [openTables EXCEPT ![p] = TRUE]
                /\ beacons' = [beacons EXCEPT ![p] = a.beacons]
                /\ net' = a.net
                /\ calls' = [calls EXCEPT !.create = @ + 1]
                /\ out' = Outcome("createTable", p,
                                   [tableName |-> tableName, players |-> players,
                                    tableID |-> tableID, activateBeacon |-> activateBeacon],
                                   "table", t, <<>>, a.sent)
    /\ UNCHANGED <<connected, joinTableRequests, announcedTables, captureNewTables,
                   maxCapturedTables, maxCapturesPerPeer, timers>>

\* The beacon: setInterval(this.announceTable, beaconInterval, newTableObj, this).
BeaconTick(p, tableObj) ==
    /\ tableObj \in beacons[p]
    /\ Room(p, BroadcastList(connected, p))
    /\ LET a == announceTable(p, tableObj, beacons[p], net, connected)
       IN  /\ beacons' = [beacons EXCEPT ![p] = a.beacons]
           /\ net' = a.net
           /\ out' = Outcome("beacon", p, tableObj, "", <<>>, <<>>, a.sent)
    /\ UNCHANGED <<connected, joinedTables, joinTableRequests, openTables,
                   announcedTables, captureNewTables, maxCapturedTables,
                   maxCapturesPerPeer, timers, calls>>

\* announceTable called by the application on a table of the registry.
AnnounceTable(p, i) ==
    /\ i \in 1..Len(joinedTables[p])
    /\ Room(p, BroadcastList(connected, p))
    /\ LET a == announceTable(p, joinedTables[p][i], beacons[p], net, connected)
       IN  /\ beacons' = [beacons EXCEPT ![p] = a.beacons]
           /\ net' = a.net
           /\ out' = Outcome("announceTable", p, joinedTables[p][i], "", <<>>, <<>>, a.sent)
    /\ UNCHANGED <<connected, joinedTables, joinTableRequests, openTables,
                   announcedTables, captureNewTables, maxCapturedTables,
                   maxCapturesPerPeer, timers, calls>>

\* The table objects an application may hand to announceTable: one open seat,
\* any owner, any id (one more id than createTable is given); and a table
\* that is not valid.
AnnounceIDs == TableIDs \cup {"t3"}

AnnounceArgs ==
    {[tableID |-> id, tableName |-> "n1", ownerPID |-> o, requiredPID |-> <<Wildcard>>,
      joinedPID |-> <<o>>, tableInfo |-> "info"] : id \in AnnounceIDs, o \in Pair}
    \cup {[tableID |-> "", tableName |-> "n1", ownerPID |-> "A",
            requiredPID |-> <<Wildcard>>, joinedPID |-> <<"A">>, tableInfo |-> "info"]}

\* announceTable called by the application on a table object of its own making
\* (no beaconID); the caches of the receivers are kept within MaxCached.
AnnounceTableObject(p, tableObj) ==
    /\ Room(p, BroadcastList(connected, p))
    /\ \A to \in Peers : Len(announcedTables[to]) < MaxCached
    /\ LET a == announceTable(p, tableObj, beacons[p], net, connected)
       IN  /\ net' = a.net
           /\ out' = Outcome("announceTable", p, tableObj, "", <<>>, <<>>, a.sent)
    /\ UNCHANGED <<connected, joinedTables, joinTableRequests, openTables,
                   announcedTables, captureNewTables, maxCapturedTables,
                   maxCapturesPerPeer, beacons, timers, calls>>

\* ------------------------------------------------------------------ joinTable

\* A table object nobody can use: its tableID is the empty string.
InvalidTable ==
    [tableName |-> "n1", tableID |-> "", ownerPID |-> "A", requiredPID |-> <<Wildcard>>,
     joinedPID |-> <<"A">>, tableInfo |-> "info"]

\* The table objects an application has at hand: copies of the tables that
\* exist somewhere, and an invalid one.
TableArgs ==
    UNION {{copyTable(t) : t \in Range(joinedTables[q]) \cup beacons[q]
                                  \cup Range(announcedTables[q])} : q \in Peers}
    \cup {InvalidTable}

\* slotAvailable without the test of the slots.
slotAlwaysAvailable(p, tableObj) == TRUE

\* joinTable: is there a slot for the local peer (lines 479-486).
slotAvailable(p, tableObj) ==
    \E count \in 1..Len(tableObj.requiredPID) :
        tableObj.requiredPID[count] = Wildcard \/ tableObj.requiredPID[count] = p

\* requestScanRejects with the scan left out.
requestScanSkipped(requests, tableObj) == FALSE

\* joinTable: the scan of the active requests (lines 495-503).  The loop reads
\* currentRequestTable[count], an index into a table object, which is
\* undefined: with any request in the list the first iteration throws inside
\* the promise executor, which rejects the promise.
requestScanRejects(requests, tableObj) == Len(requests) > 0

JoinTimerIDs(p) == {t.joinTimeoutID : t \in timers[p]}
                \cup {joinTableRequests[p][i].joinTimeoutID : i \in 1..Len(joinTableRequests[p])}

\* joinTable: the request object, i.e. tableObj with the timer id added.
requestObject(tableObj, joinTimeoutID) ==
    [f \in (DOMAIN tableObj \cup {"joinTimeoutID"}) |->
        IF f = "joinTimeoutID" THEN joinTimeoutID ELSE tableObj[f]]

\* joinTableProceeds without the test of the connection.
joinTableProceedsOffline(p, conn, requests, tableObj) ==
    /\ isValidTable(tableObj)
    /\ slotAvailable(p, tableObj)
    /\ ~requestScanRejects(requests, tableObj)

\* joinTable: does the promise executor go on to record and send the request.
joinTableProceeds(p, conn, requests, tableObj) ==
    /\ conn[p]
    /\ isValidTable(tableObj)
    /\ slotAvailable(p, tableObj)
    /\ ~requestScanRejects(requests, tableObj)

JoinTable(p, tableObj) ==
    /\ tableObj \in TableArgs
    /\ Room(p, {q \in Peers : Has(tableObj, "ownerPID") /\ q = tableObj.ownerPID})
    /\ IF joinTableProceeds(p, connected, joinTableRequests[p], tableObj)
       THEN /\ calls.join < MaxJoins
            /\ calls' = [calls EXCEPT !.join = @ + 1]
            /\ LET req == requestObject(tableObj, FreshID(JoinTimerIDs(p)))
                   msg == buildCPMessage("jointablerequest", tableObj)
               IN  /\ joinTableRequests' = [joinTableRequests EXCEPT ![p] = Append(@, req)]
                   /\ net' = p2pSend(net, connected, p, msg, <<tableObj.ownerPID>>)
                   /\ timers' = [timers EXCEPT ![p] = @ \cup {req}]
                   /\ out' = Outcome("joinTable", p, tableObj, "pending", <<>>, <<>>,
                                      <<[data |-> msg, to |-> <<tableObj.ownerPID>>]>>)
       ELSE /\ out' = Outcome("joinTable", p, tableObj, "rejected", <<>>, <<>>, <<>>)
            /\ UNCHANGED <<joinTableRequests, net, timers, calls>>
    /\ UNCHANGED <<connected, joinedTables, openTables, announcedTables,
                   captureNewTables, maxCapturedTables, maxCapturesPerPeer, beacons>>

\* onJoinTableRequestTimeout(tableObj, context), run by setTimeout: `this` is
\* not the CypherPoker instance there, so this.debug(...) on line 575 throws
\* before the request list is read.  [requests, events, rejected] as left by
\* the call.
onJoinTableRequestTimeout(requestsArray, tableObj) ==
    [requests |-> requestsArray, events |-> <<>>, rejected |-> FALSE]

JoinTimeout(p, tableObj) ==
    /\ tableObj \in timers[p]
    /\ LET r == onJoinTableRequestTimeout(joinTableRequests[p], tableObj)
       IN  /\ joinTableRequests' = [joinTableRequests EXCEPT ![p] = r.requests]
           /\ out' = Outcome("onJoinTableRequestTimeout", p, tableObj,
                              IF r.rejected THEN "rejected" ELSE "thrown",
                              <<>>, r.events, <<>>)
    /\ timers' = [timers EXCEPT ![p] = @ \ {tableObj}]
    /\ UNCHANGED <<connected, joinedTables, openTables, announcedTables,
                   captureNewTables, maxCapturedTables, maxCapturesPerPeer,
                   beacons, net, calls>>

\* ------------------------------------------------- sendToTable, leaveJoinedTable

\* The `message` argument: a string, or null.
TableMessages == {"hello", Null}

\* sendToTable that sends to every joined peer, the local one included.
sendToTableAll(p, tableObj, message) ==
    IF ~isValidTable(tableObj) \/ message = Null
    THEN [result |-> "false", sent |-> <<>>]
    ELSE [result |-> "true",
          sent |-> <<[data |-> [cpMsg |-> "tablemsg", message |-> message,
                                tableName |-> tableObj.tableName,
                                tableID |-> tableObj.tableID],
                      to |-> tableObj.joinedPID]>>]

\* sendToTable: [result, sent].
sendToTable(p, tableObj, message) ==
    IF ~isValidTable(tableObj) \/ message = Null
    THEN [result |-> "false", sent |-> <<>>]
    ELSE [result |-> "true",
          sent |-> <<[data |-> [cpMsg |-> "tablemsg", message |-> message,
                                tableName |-> tableObj.tableName,
                                tableID |-> tableObj.tableID],
                      to |-> createTablePIDList(p, tableObj.joinedPID)]>>]

RECURSIVE applySends(_, _, _, _)
\* The p2p calls of one step, in order.
applySends(n, conn, from, sent) ==
    IF sent = <<>> THEN n
    ELSE applySends(IF Head(sent).to = <<"*">>
                    THEN p2pBroadcast(n, conn, from, Head(sent).data)
                    ELSE p2pSend(n, conn, from, Head(sent).data, Head(sent).to),
                    conn, from, Tail(sent))

SendTargets(p, sent) ==
    UNION {IF sent[i].to = <<"*">> THEN BroadcastList(connected, p)
           ELSE Deliverable(connected, p, sent[i].to) : i \in 1..Len(sent)}

SendToTable(p, tableObj, message) ==
    /\ tableObj \in TableArgs
    /\ IF ~connected[p]
       THEN /\ out' = Outcome("sendToTable", p, [table |-> tableObj, message |-> message],
                               "thrown", <<>>, <<>>, <<>>)
            /\ UNCHANGED net
       ELSE LET r == sendToTable(p, tableObj, message)
            IN  /\ Room(p, SendTargets(p, r.sent))
                /\ net' = applySends(net, connected, p, r.sent)
                /\ out' = Outcome("sendToTable", p,
                                   [table |-> tableObj, message |-> message],
                                   r.result, <<>>, <<>>, r.sent)
    /\ UNCHANGED <<connected, joinedTables, joinTableRequests, openTables,
                   announcedTables, captureNewTables, maxCapturedTables,
                   maxCapturesPerPeer, beacons, timers, calls>>

\* leaveJoinedTable: index of the first joined table with the same tableID,
\* tableName and ownerPID, or 0.
joinedIndex(tables, tableObj) ==
    LET hits == {count \in 1..Len(tables) :
                    /\ tables[count].tableID = tableObj.tableID
                    /\ tables[count].tableName = tableObj.tableName
                    /\ tables[count].ownerPID = tableObj.ownerPID}
    IN  IF hits = {} THEN 0 ELSE CHOOSE count \in hits : \A h \in hits : count <= h

\* leaveJoinedTable: [result, tables, sent].
leaveJoinedTable(p, tables, tableObj) ==
    IF ~isValidTable(tableObj) \/ joinedIndex(tables, tableObj) = 0
    THEN [result |-> "false", tables |-> tables, sent |-> <<>>]
    ELSE [result |-> "true",
          tables |-> Splice(tables, joinedIndex(tables, tableObj)),
          sent |-> <<[data |-> buildCPMessage("leavetable", tableObj),
                      to |-> createTablePIDList(p, tableObj.joinedPID)]>>]

LeaveJoinedTable(p, tableObj) ==
    /\ tableObj \in TableArgs
    /\ IF ~connected[p]
       THEN /\ out' = Outcome("leaveJoinedTable", p, tableObj, "thrown", <<>>, <<>>, <<>>)
            /\ UNCHANGED <<joinedTables, net, calls>>
       ELSE LET r == leaveJoinedTable(p, joinedTables[p], tableObj)
            IN  /\ Room(p, SendTargets(p, r.sent))
                /\ r.result = "true" => calls.leave < MaxLeaves
                /\ calls' = [calls EXCEPT !.leave = IF r.result = "true" THEN @ + 1 ELSE @]
                /\ joinedTables' = [joinedTables EXCEPT ![p] = r.tables]
                /\ net' = applySends(net, connected, p, r.sent)
                /\ out' = Outcome("leaveJoinedTable", p, tableObj, r.result, <<>>, <<>>,
                                   r.sent)
    /\ UNCHANGED <<connected, joinTableRequests, openTables, announcedTables,
                   captureNewTables, maxCapturedTables, maxCapturesPerPeer,
                   beacons, timers>>

\* ------------------------------------------------------------ getJoinedTables

\* The filters an application passes: null, a value some table has, and for
\* the name a value no table has.
NameFilters == {Null, "n1", "nx"}
IDFilters == {Null} \cup TableIDs
OwnerFilters == {Null} \cup Pair

\* `ownerID`, line 673, is not a variable of getJoinedTables: the name is
\* looked up in the global scope, where it is unbound (reading it throws a
\* ReferenceError), or bound by the page to null or to some value.
GlobalOwnerID == {"unbound", Null, "set"}

\* getJoinedTables, lines 659-683: the hits of one table.
hitsOf(table, tableName, tableID, ownerID) ==
      (IF tableName = Null THEN 0 ELSE IF table.tableName = tableName THEN 1 ELSE -10)
    + (IF tableID = Null THEN 0 ELSE IF table.tableID = tableID THEN 1 ELSE -10)
    + (IF ownerID = Null THEN 0 ELSE IF table.ownerPID # "" THEN 1 ELSE -10)

\* getJoinedTables(tableName, tableID, ownerPID): [result, value].
getJoinedTables(tables, tableName, tableID, ownerPID, ownerID) ==
    IF tableName = Null /\ tableID = Null /\ ownerPID = Null
    THEN [result |-> "array", value |-> tables]
    ELSE IF Len(tables) > 0 /\ ownerID = "unbound"
         THEN [result |-> "thrown", value |-> <<>>]
    ELSE [result |-> "array",
          value |-> SelectSeq(tables,
                        LAMBDA t : hitsOf(t, tableName, tableID, ownerID) > 0)]

GetJoinedTables(p, tableName, tableID, ownerPID, ownerID) ==
    /\ LET r == getJoinedTables(joinedTables[p], tableName, tableID, ownerPID, ownerID)
       IN  out' = Outcome("getJoinedTables", p,
                          [tableName |-> tableName, tableID |-> tableID,
                           ownerPID |-> ownerPID, ownerID |-> ownerID],
                          r.result, r.value, <<>>, <<>>)
    /\ UNCHANGED <<connected, joinedTables, joinTableRequests, openTables, announcedTables,
                   captureNewTables, maxCapturedTables, maxCapturesPerPeer, beacons,
                   timers, net, calls>>

\* ------------------------------------------------------------- captureTable

RECURSIVE captureScan(_, _, _, _, _)
\* captureTable, lines 872-885: TRUE when the scan of the cache returns false.
captureScan(cache, tableResult, maxPerPeer, count, numTables) ==
    IF count > Len(cache) THEN FALSE
    ELSE IF cache[count].ownerPID = tableResult.from
         THEN IF cache[count].tableID = tableResult.data.tableID THEN TRUE
              ELSE IF numTables + 1 > maxPerPeer THEN TRUE
              ELSE captureScan(cache, tableResult, maxPerPeer, count + 1, numTables + 1)
         ELSE captureScan(cache, tableResult, maxPerPeer, count + 1, numTables)

\* cacheInsert popping the newest entry instead of the oldest.
cacheInsertNewest(cache, data, maxTables) ==
    IF Len(<<data>> \o cache) > maxTables THEN cache ELSE <<data>> \o cache

\* captureTable, lines 893-896: unshift(tableResult.data), then pop if too long.
cacheInsert(cache, data, maxTables) ==
    IF Len(<<data>> \o cache) > maxTables
    THEN SubSeq(<<data>> \o cache, 1, Len(cache))
    ELSE <<data>> \o cache

\* captureTable, line 895: the entries that pop() takes off the array.
cachePopped(cache, data, maxTables) ==
    IF Len(<<data>> \o cache) > maxTables THEN <<cache[Len(cache)]>> ELSE <<>>

\* captureTable(tableResult): [result, cache, popped].
captureTable(cache, tableResult, maxTables, maxPerPeer) ==
    IF ~isValidTable(tableResult.data)
    THEN [result |-> FALSE, cache |-> cache, popped |-> <<>>]
    ELSE IF captureScan(cache, tableResult, maxPerPeer, 1, 0)
         THEN [result |-> FALSE, cache |-> cache, popped |-> <<>>]
    ELSE [result |-> TRUE, cache |-> cacheInsert(cache, tableResult.data, maxTables),
          popped |-> cachePopped(cache, tableResult.data, maxTables)]

\* --------------------------------------------------------- handleP2PMessage

\* What a handler leaves behind at peer p: the instance's collections, the
\* timers, the p2p calls made, the events dispatched, the promise settled and
\* (value) the cache entries popped.
Kept(p) ==
    [joinedTables |-> joinedTables[p], joinTableRequests |-> joinTableRequests[p],
     openTables |-> openTables[p], announcedTables |-> announcedTables[p],
     beacons |-> beacons[p], timers |-> timers[p],
     sent |-> <<>>, events |-> <<>>, result |-> "", value |-> <<>>]

ownEvent(from, message) == [type |-> message.cpMsg, from |-> from, data |-> message]

\* case "newtable"
handleNewTable(p, st, from, message, capture, maxTables, maxPerPeer) ==
    IF ~capture THEN st
    ELSE LET r == captureTable(st.announcedTables, [from |-> from, data |-> message],
                               maxTables, maxPerPeer)
         IN  IF r.result
             THEN [st EXCEPT !.announcedTables = r.cache,
                             !.events = <<ownEvent(from, message)>>,
                             !.value = r.popped]
             ELSE st

\* slotMatches without the wildcard.
slotMatchesExact(requiredPID, from) == requiredPID = from

\* case "jointablerequest", line 767: the slot is the requester's or anybody's.
slotMatches(requiredPID, from) == requiredPID = from \/ requiredPID = Wildcard

RECURSIVE fillSlots(_, _, _, _, _)
\* case "jointablerequest", lines 765-775: the scan of requiredPID of one
\* table, splicing in place while count2 advances.  acc = [table, sent, events].
fillSlots(p, from, message, acc, count2) ==
    IF count2 > Len(acc.table.requiredPID) THEN acc
    ELSE IF slotMatches(acc.table.requiredPID[count2], from)
         THEN LET t == [acc.table EXCEPT !.requiredPID = Splice(@, count2),
                                         !.joinedPID = Append(@, from)]
              IN  fillSlots(p, from, message,
                     [table |-> t,
                      sent |-> Append(acc.sent,
                                 [data |-> buildCPMessage("jointable", t),
                                  to |-> createTablePIDList(p, t.joinedPID)]),
                      events |-> Append(acc.events, ownEvent(from, message))],
                     count2 + 1)
         ELSE fillSlots(p, from, message, acc, count2 + 1)

RECURSIVE scanJoinRequest(_, _, _, _, _)
\* case "jointablerequest", lines 761-781: the scan of the registry.
scanJoinRequest(p, st, from, message, count) ==
    IF count > Len(st.joinedTables) THEN st
    ELSE LET currentTable == st.joinedTables[count]
         IN  IF currentTable.ownerPID # p
             THEN scanJoinRequest(p, st, from, message, count + 1)
             ELSE LET r == IF currentTable.tableID = message.tableID
                              /\ currentTable.tableName = message.tableName
                           THEN fillSlots(p, from, message,
                                    [table |-> currentTable, sent |-> <<>>, events |-> <<>>], 1)
                           ELSE [table |-> currentTable, sent |-> <<>>, events |-> <<>>]
                  IN  scanJoinRequest(p,
                         [st EXCEPT !.joinedTables[count] = r.table,
                                    !.beacons = syncBeacon(@, currentTable, r.table),
                                    !.sent = @ \o r.sent,
                                    !.events = @ \o r.events,
                                    !.openTables = IF Len(r.table.requiredPID) > 0
                                                   THEN TRUE ELSE @],
                         from, message, count + 1)

\* handleJoinTableRequest that leaves openTables false after the scan.
handleJoinTableRequestClosed(p, st, from, message) ==
    IF ~st.openTables THEN st
    ELSE [scanJoinRequest(p, [st EXCEPT !.openTables = FALSE], from, message, 1)
             EXCEPT !.openTables = FALSE]

\* case "jointablerequest", lines 756-782.
handleJoinTableRequest(p, st, from, message) ==
    IF ~st.openTables THEN st
    ELSE scanJoinRequest(p, [st EXCEPT !.openTables = FALSE], from, message, 1)

\* First index of seq whose element satisfies Test, or 0.
FirstIndex(seq, Test(_)) ==
    LET hits == {i \in 1..Len(seq) : Test(seq[i])}
    IN  IF hits = {} THEN 0 ELSE CHOOSE i \in hits : \A h \in hits : i <= h

\* handleJoinTable without clearTimeout(requestObj.joinTimeoutID).
handleJoinTableNoClear(p, st, from, message) ==
    LET newTable == copyTable(message)
        joined == FirstIndex(st.joinedTables,
                     LAMBDA t : t.tableID = message.tableID /\ t.tableName = message.tableName)
        asked == FirstIndex(st.joinTableRequests,
                     LAMBDA r : /\ r.ownerPID = from
                                /\ r.tableID = message.tableID
                                /\ r.tableName = message.tableName)
    IN  IF joined # 0
        THEN [st EXCEPT !.joinedTables[joined] = newTable,
                        !.events = <<ownEvent(from, message)>>]
        ELSE IF asked # 0
        THEN [st EXCEPT !.joinTableRequests = Splice(@, asked),
                        !.joinedTables = Append(@, newTable),
                        !.events = <<ownEvent(from, message)>>,
                        !.result = "resolved"]
        ELSE st

\* case "jointable", lines 783-818.
handleJoinTable(p, st, from, message) ==
    LET newTable == copyTable(message)
        joined == FirstIndex(st.joinedTables,
                     LAMBDA t : t.tableID = message.tableID /\ t.tableName = message.tableName)
        asked == FirstIndex(st.joinTableRequests,
                     LAMBDA r : /\ r.ownerPID = from
                                /\ r.tableID = message.tableID
                                /\ r.tableName = message.tableName)
    IN  IF joined # 0
        THEN [st EXCEPT !.joinedTables[joined] = newTable,
                        !.events = <<ownEvent(from, message)>>]
        ELSE IF asked # 0
        THEN [st EXCEPT !.joinTableRequests = Splice(@, asked),
                        !.timers = {t \in @ : t.joinTimeoutID
                                        # st.joinTableRequests[asked].joinTimeoutID},
                        !.joinedTables = Append(@, newTable),
                        !.events = <<ownEvent(from, message)>>,
                        !.result = "resolved"]
        ELSE st

\* handleLeaveTable that gives the seat of the leaver back.
handleLeaveTableReopen(p, st, from, message) ==
    LET hit == FirstIndex(st.joinedTables,
                  LAMBDA t : /\ t.tableID = message.tableID
                             /\ t.tableName = message.tableName
                             /\ from \in Range(t.joinedPID))
    IN  IF hit = 0 THEN st
        ELSE LET old == st.joinedTables[hit]
                 new == [old EXCEPT !.joinedPID =
                            Splice(@, FirstIndex(old.joinedPID, LAMBDA pid : pid = from)),
                                    !.requiredPID = Append(@, Wildcard)]
             IN  [st EXCEPT !.joinedTables[hit] = new,
                            !.beacons = syncBeacon(@, old, new),
                            !.events = <<ownEvent(from, message)>>]

\* case "leavetable", lines 825-843: the first joined table with the message's
\* tableID and tableName that lists the sender loses its first occurrence.
handleLeaveTable(p, st, from, message) ==
    LET hit == FirstIndex(st.joinedTables,
                  LAMBDA t : /\ t.tableID = message.tableID
                             /\ t.tableName = message.tableName
                             /\ from \in Range(t.joinedPID))
    IN  IF hit = 0 THEN st
        ELSE LET old == st.joinedTables[hit]
                 new == [old EXCEPT !.joinedPID =
                            Splice(@, FirstIndex(old.joinedPID, LAMBDA pid : pid = from))]
             IN  [st EXCEPT !.joinedTables[hit] = new,
                            !.beacons = syncBeacon(@, old, new),
                            !.events = <<ownEvent(from, message)>>]

\* handleTableMsg without the dispatch of the event.
handleTableMsgSilent(p, st, from, message) == st

\* case "tablemsg"
handleTableMsg(p, st, from, message) ==
    [st EXCEPT !.events = <<ownEvent(from, message)>>]

\* isCPMessage (the envelope itself is built by the transport).
isCPMessage(message) == Has(message, "cpMsg") /\ message.cpMsg # ""

\* handleP2PMessage: the switch on the message type.
handleP2PMessage(p, st, from, message, capture, maxTables, maxPerPeer) ==
    IF ~isCPMessage(message) THEN st
    ELSE CASE message.cpMsg = "newtable" ->
                 handleNewTable(p, st, from, message, capture, maxTables, maxPerPeer)
           [] message.cpMsg = "jointablerequest" -> handleJoinTableRequest(p, st, from, message)
           [] message.cpMsg = "jointable" -> handleJoinTable(p, st, from, message)
           [] message.cpMsg = "tablemsg" -> handleTableMsg(p, st, from, message)
           [] message.cpMsg = "leavetable" -> handleLeaveTable(p, st, from, message)
           [] OTHER -> st

\* The "message" event of the transport: the head of a channel is handled.
Handle(p, from, message, n) ==
    LET r == handleP2PMessage(p, Kept(p), from, message, captureNewTables[p],
                              maxCapturedTables[p], maxCapturesPerPeer[p])
    IN  /\ joinedTables' = [joinedTables EXCEPT ![p] = r.joinedTables]
        /\ joinTableRequests' = [joinTableRequests EXCEPT ![p] = r.joinTableRequests]
        /\ openTables' = [openTables EXCEPT ![p] = r.openTables]
        /\ announcedTables' = [announcedTables EXCEPT ![p] = r.announcedTables]
        /\ beacons' = [beacons EXCEPT ![p] = r.beacons]
        /\ timers' = [timers EXCEPT ![p] = r.timers]
        /\ net' = applySends(n, connected, p, r.sent)
        /\ out' = Outcome("message", p, [from |-> from, data |-> message], r.result,
                           r.value, r.events, r.sent)
        /\ UNCHANGED <<connected, captureNewTables, maxCapturedTables, maxCapturesPerPeer,
                       calls>>

Deliver(from, to) ==
    /\ net[<<from, to>>] # <<>>
    /\ Handle(to, from, Head(net[<<from, to>>]),
              [net EXCEPT ![<<from, to>>] = Tail(@)])

\* ------------------------------------------------- events of other origin

\* A JavaScript value that is not an object (typeof is not "object"), and null
\* (typeof is "object", reading a property of it throws).
Primitive == [primitive |-> "text"]
NullValue == [null |-> TRUE]
IsObject(v) == ~Has(v, "primitive")
IsNull(v) == Has(v, "null")

\* isCPMsgEvent: the tests of event.data, event.data.result and
\* event.data.result.data, then isCPMessage; a TypeError is caught and gives false.
isCPMsgEvent(event) ==
    IF ~Has(event, "data") \/ ~IsObject(event.data) THEN FALSE
    ELSE IF IsNull(event.data) THEN FALSE
    ELSE IF ~Has(event.data, "result") \/ ~IsObject(event.data.result) THEN FALSE
    ELSE IF IsNull(event.data.result) THEN FALSE
    ELSE IF ~Has(event.data.result, "data") \/ ~IsObject(event.data.result.data) THEN FALSE
    ELSE IF IsNull(event.data.result.data) THEN FALSE
    ELSE isCPMessage(event.data.result.data)

\* The "message" event around a payload sent by `from`.
Envelope(from, data) == [data |-> [result |-> [from |-> from, data |-> data]]]

\* Payloads that no CypherPoker operation sends, and a tablemsg.
ForeignPayloads ==
    {Primitive, NullValue,
     [text |-> "hi"],
     [cpMsg |-> ""],
     [cpMsg |-> "gamemsg", tableID |-> "t1", tableName |-> "n1"],
     [cpMsg |-> "tablemsg", message |-> "hello", tableID |-> "t1", tableName |-> "n1"]}

\* The "message" events that the transport may hand to the instance besides
\* those of the peers' operations.
ForeignEvents ==
    {[type |-> "message"],
     [data |-> Primitive],
     [data |-> NullValue],
     [data |-> [id |-> 1]],
     [data |-> [result |-> Primitive]],
     [data |-> [result |-> NullValue]],
     [data |-> [result |-> [from |-> "A"]]]}
    \cup {Envelope(from, d) : from \in Pair, d \in ForeignPayloads}

\* handleP2PMessage run on an event that did not come out of a channel.
ReceiveEvent(p, event) ==
    /\ IF ~isCPMsgEvent(event)
       THEN /\ out' = Outcome("event", p, event, "", <<>>, <<>>, <<>>)
            /\ UNCHANGED <<joinedTables, joinTableRequests, openTables, announcedTables,
                           beacons, timers, net>>
       ELSE LET from == event.data.result.from
                message == event.data.result.data
                r == handleP2PMessage(p, Kept(p), from, message, captureNewTables[p],
                                      maxCapturedTables[p], maxCapturesPerPeer[p])
            IN  /\ joinedTables' = [joinedTables EXCEPT ![p] = r.joinedTables]
                /\ joinTableRequests' = [joinTableRequests EXCEPT ![p] = r.joinTableRequests]
                /\ openTables' = [openTables EXCEPT ![p] = r.openTables]
                /\ announcedTables' = [announcedTables EXCEPT ![p] = r.announcedTables]
                /\ beacons' = [beacons EXCEPT ![p] = r.beacons]
                /\ timers' = [timers EXCEPT ![p] = r.timers]
                /\ net' = applySends(net, connected, p, r.sent)
                /\ out' = Outcome("event", p, event, r.result, r.value, r.events, r.sent)
    /\ UNCHANGED <<connected, captureNewTables, maxCapturedTables, maxCapturesPerPeer,
                   calls>>

\* ------------------------------------------------------------ specification

Next ==
    \/ \E p \in Pair : Start(p)
    \/ \E p \in Pair, name \in TableNames, players \in PlayersArgs, id \in TableIDs :
          CreateTable(p, name, players, id, FALSE)
    \/ \E p \in Pair : \E t \in TableArgs : JoinTable(p, t)
    \/ \E p \in Pair : \E t \in timers[p] : JoinTimeout(p, t)
    \/ \E p \in Pair : \E t \in TableArgs : LeaveJoinedTable(p, t)
    \/ \E from \in Pair, to \in Pair : Deliver(from, to)

\* The lobby without beacons: tables are created, joined and left.
Spec == Init /\ [][Next]_vars

\* The join scenario: A creates one table with one open seat, B asks once
\* to join a copy of a table of A; beacons tick, timers fire and messages are
\* delivered meanwhile.
JoinScenarioNext ==
    \/ \E p \in Pair : Start(p)
    \/ \E captureSet \in BOOLEAN : SetCaptureNewTables("B", captureSet)
    \/ \E name \in TableNames, id \in TableIDs, beacon \in BOOLEAN :
          calls.create = 0 /\ CreateTable("A", name, [num |-> 1], id, beacon)
    \/ \E b \in beacons["A"] : BeaconTick("A", b)
    \/ \E t \in TableArgs :
          calls.join = 0 /\ t.ownerPID = "A" /\ JoinTable("B", t)
    \/ \E t \in timers["B"] : JoinTimeout("B", t)
    \/ \E from \in Pair, to \in Pair : Deliver(from, to)

\* The lobby with beacons: A creates announced tables, announces by hand and
\* leaves; B joins and leaves.
BeaconNext ==
    \/ \E p \in Pair : Start(p)
    \/ \E name \in TableNames, players \in PlayersArgs, id \in TableIDs :
          CreateTable("A", name, players, id, TRUE)
    \/ \E b \in beacons["A"] : BeaconTick("A", b)
    \/ \E i \in 1..Len(joinedTables["A"]) : AnnounceTable("A", i)
    \/ \E t \in TableArgs : JoinTable("B", t)
    \/ \E t \in timers["B"] : JoinTimeout("B", t)
    \/ \E p \in Pair : \E t \in TableArgs : LeaveJoinedTable(p, t)
    \/ \E from \in Pair, to \in Pair : Deliver(from, to)

BeaconSpec == Init /\ [][BeaconNext]_vars

\* The announcement cache: A announces table objects, B captures them under
\* limits that change at run time.
CacheNext ==
    \/ \E p \in Pair : Start(p)
    \/ \E captureSet \in BOOLEAN : SetCaptureNewTables("B", captureSet)
    \/ \E maxSet \in 1..MaxCacheSize : SetMaxCapturedTables("B", maxSet)
    \/ \E maxSet \in 1..MaxQuota : SetMaxCapturesPerPeer("B", maxSet)
    \/ \E t \in AnnounceArgs : AnnounceTableObject("A", t)
    \/ \E from \in Pair, to \in Pair : Deliver(from, to)

CacheSpec == Init /\ [][CacheNext]_vars

\* Messages to a table: A creates one table, B joins and leaves it, both send
\* to the tables they know.
MessageNext ==
    \/ \E p \in Pair : Start(p)
    \/ \E name \in TableNames, players \in PlayersArgs, id \in TableIDs :
          calls.create = 0 /\ CreateTable("A", name, players, id, FALSE)
    \/ \E t \in TableArgs : JoinTable("B", t)
    \/ \E p \in Pair : \E t \in TableArgs : LeaveJoinedTable(p, t)
    \/ \E p \in Pair : \E t \in TableArgs, message \in TableMessages :
          SendToTable(p, t, message)
    \/ \E from \in Pair, to \in Pair : Deliver(from, to)

MessageSpec == Init /\ [][MessageNext]_vars

\* Events of other origin: A creates one announced table, B captures it and
\* joins, both send to the table, and the transport delivers other events.
EventNext ==
    \/ \E p \in Pair : Start(p)
    \/ SetCaptureNewTables("B", TRUE)
    \/ \E name \in TableNames, id \in TableIDs :
          calls.create = 0 /\ CreateTable("A", name, [num |-> 2], id, TRUE)
    \/ \E b \in beacons["A"] : BeaconTick("A", b)
    \/ \E t \in TableArgs : calls.join = 0 /\ isValidTable(t) /\ JoinTable("B", t)
    \/ \E p \in Pair : \E t \in TableArgs :
          isValidTable(t) /\ SendToTable(p, t, "hello")
    \/ \E p \in Pair, event \in ForeignEvents : ReceiveEvent(p, event)
    \/ \E from \in Pair, to \in Pair : Deliver(from, to)

EventSpec == Init /\ [][EventNext]_vars

\* The registry queried: A creates tables, B joins one, both ask for their
\* joined tables under every combination of filters.
QueryNext ==
    \/ \E p \in Pair : Start(p)
    \/ \E name \in TableNames, id \in TableIDs :
          CreateTable("A", name, [num |-> 1], id, FALSE)
    \/ \E t \in TableArgs : calls.join = 0 /\ isValidTable(t) /\ JoinTable("B", t)
    \/ \E from \in Pair, to \in Pair : Deliver(from, to)
    \/ \E p \in Pair, tableName \in NameFilters, tableID \in IDFilters,
          ownerPID \in OwnerFilters, ownerID \in GlobalOwnerID :
          GetJoinedTables(p, tableName, tableID, ownerPID, ownerID)

QuerySpec == Init /\ [][QueryNext]_vars

\* One table and three peers: A creates a table with two open seats or more,
\* B and C ask to join it, any of the three leaves it once.
TrioNext ==
    \/ \E p \in Peers : Start(p)
    \/ \E name \in TableNames, id \in TableIDs :
          \E n \in 2..MaxTrioSlots :
              calls.create = 0 /\ CreateTable("A", name, [num |-> n], id, FALSE)
    \/ \E p \in {"B", "C"} : \E t \in TableArgs : isValidTable(t) /\ JoinTable(p, t)
    \/ \E p \in Peers : \E t \in timers[p] : JoinTimeout(p, t)
    \/ \E p \in Peers : \E t \in TableArgs : isValidTable(t) /\ LeaveJoinedTable(p, t)
    \/ \E from \in Peers, to \in Peers : Deliver(from, to)

TrioSpec == Init /\ [][TrioNext]_vars

\* Every message sent is eventually delivered.
Delivery == \A from \in Pair, to \in Pair : WF_vars(Deliver(from, to))

JoinScenario == Init /\ [][JoinScenarioNext]_vars /\ Delivery

\* ------------------------------------------------------------------- claims

\* The step just taken handled, at peer p, the message at the head of the
\* channel from `from`, and that message is of the given kind.
HandledKind(from, p, kind) ==
    /\ net[<<from, p>>] # <<>>
    /\ Head(net[<<from, p>>]).cpMsg = kind
    /\ out'.op = "message" /\ out'.peer = p
    /\ out'.arg = [from |-> from, data |-> Head(net[<<from, p>>])]
    /\ net'[<<from, p>>] = Tail(net[<<from, p>>])

\* Request r is the pending request for the table of this owner, id and name.
RequestFor(r, owner, message) ==
    r.ownerPID = owner /\ r.tableID = message.tableID /\ r.tableName = message.tableName

SameTable(t, message) ==
    t.tableID = message.tableID /\ t.tableName = message.tableName

C2_AcceptanceTransition ==
    [][\A p \in Peers, from \in Peers :
        (/\ HandledKind(from, p, "jointable")
         /\ \E r \in Range(joinTableRequests[p]) : RequestFor(r, from, Head(net[<<from, p>>]))
         /\ \A t \in Range(joinedTables[p]) : ~SameTable(t, Head(net[<<from, p>>])))
        => LET message == Head(net[<<from, p>>])
           IN  /\ \A r \in Range(joinTableRequests'[p]) : ~RequestFor(r, from, message)
               /\ Len(joinTableRequests'[p]) = Len(joinTableRequests[p]) - 1
               /\ \A r \in Range(joinTableRequests[p]) :
                     RequestFor(r, from, message)
                     => \A t \in timers'[p] : t.joinTimeoutID # r.joinTimeoutID
               /\ joinedTables'[p] = Append(joinedTables[p], copyTable(message))
               /\ out'.result = "resolved"]_vars

\* A join has just been accepted.
C2_Witness ==
    /\ out.op = "message" /\ out.arg.data.cpMsg = "jointable"
    /\ out.result = "resolved"
    /\ \E t \in Range(joinedTables[out.peer]) : t = copyTable(out.arg.data)

\* C3: when the timer of a pending join request expires, the request leaves
\* the pending list, the join promise is rejected and a jointabletimeout event
\* carrying the request's table is dispatched.
C3_TimeoutTransition ==
    out.op = "onJoinTableRequestTimeout"
    => /\ out.arg \notin Range(joinTableRequests[out.peer])
       /\ out.result = "rejected"
       /\ out.events = <<[type |-> "jointabletimeout", table |-> out.arg]>>

\* C4: a peer never holds two pending requests for one (ownerPID, tableID),
\* and a joinTable call for a pair that is pending is rejected, records no
\* request and sends nothing.
C4_OnePendingPerPair ==
    /\ [](\A p \in Peers : \A i, j \in 1..Len(joinTableRequests[p]) :
            (/\ joinTableRequests[p][i].ownerPID = joinTableRequests[p][j].ownerPID
             /\ joinTableRequests[p][i].tableID = joinTableRequests[p][j].tableID)
            => i = j)
    /\ [][\A p \in Peers :
            (/\ out'.op = "joinTable" /\ out'.peer = p
             /\ isValidTable(out'.arg)
             /\ \E r \in Range(joinTableRequests[p]) :
                   r.ownerPID = out'.arg.ownerPID /\ r.tableID = out'.arg.tableID)
            => /\ out'.result = "rejected"
               /\ out'.sent = <<>>
               /\ joinTableRequests' = joinTableRequests
               /\ timers' = timers
               /\ net' = net]_vars

\* A joinTable call on a joinable table was rejected because a request for
\* its (ownerPID, tableID) is pending.
C4_Witness ==
    /\ out.op = "joinTable" /\ out.result = "rejected"
    /\ connected[out.peer]
    /\ isValidTable(out.arg)
    /\ \E i \in 1..Len(out.arg.requiredPID) : out.arg.requiredPID[i] \in {Wildcard, out.peer}
    /\ \E r \in Range(joinTableRequests[out.peer]) :
          r.ownerPID = out.arg.ownerPID /\ r.tableID = out.arg.tableID

\* No entry of requiredPID is the peer's id or the wildcard.
NoSlotFor(p, tableObj) ==
    \A i \in 1..Len(tableObj.requiredPID) : tableObj.requiredPID[i] \notin {Wildcard, p}

\* C5: joinTable on a valid table without a slot for the local peer (no
\* wildcard, no entry with its id) rejects, sends nothing, arms no timer and
\* leaves the pending requests as they were.
C5_NoSlotRejects ==
    [][\A p \in Peers :
        (/\ out'.op = "joinTable" /\ out'.peer = p
         /\ isValidTable(out'.arg)
         /\ NoSlotFor(p, out'.arg))
        => /\ out'.result = "rejected"
           /\ out'.sent = <<>>
           /\ net' = net
           /\ timers' = timers
           /\ joinTableRequests' = joinTableRequests]_vars

\* A connected peer with no pending request called joinTable on a table whose
\* slots are all reserved for other peers.
C5_Witness ==
    /\ out.op = "joinTable" /\ out.result = "rejected"
    /\ connected[out.peer]
    /\ joinTableRequests[out.peer] = <<>>
    /\ isValidTable(out.arg)
    /\ out.arg.requiredPID # <<>>
    /\ NoSlotFor(out.peer, out.arg)

\* C6: createTable(name, n, ...) by a connected peer returns a table with n
\* wildcards in requiredPID, joinedPID = [self], ownerPID = self, and that table
\* is in the joined tables when the call returns.
C6_CreateTable ==
    (out.op = "createTable" /\ connected[out.peer])
    => /\ out.result = "table"
       /\ Has(out.arg.players, "num")
          => /\ Len(out.value.requiredPID) = out.arg.players.num
             /\ \A i \in 1..Len(out.value.requiredPID) : out.value.requiredPID[i] = Wildcard
             /\ out.value.joinedPID = <<out.peer>>
             /\ out.value.ownerPID = out.peer
             /\ out.value \in Range(joinedTables[out.peer])

\* createTable returned a table with two open seats.
C6_Witness ==
    /\ out.op = "createTable" /\ out.result = "table"
    /\ Has(out.arg.players, "num") /\ out.arg.players.num = 2
    /\ out.value \in Range(joinedTables[out.peer])

\* The table object o announced at p is one whose seats are all taken: itself,
\* or as the owned table of the registry it is (the same object, or the one
\* carrying its beaconID).
Emptied(p, o) ==
    \/ o.requiredPID = <<>>
    \/ \E t \in Range(joinedTables[p]) :
          /\ t.ownerPID = p /\ t.requiredPID = <<>>
          /\ t = o \/ (beaconIDOf(o) # 0 /\ beaconIDOf(t) = beaconIDOf(o))

\* C7: once the seats of an owned table are all taken, neither a beacon tick
\* nor a call of announceTable broadcasts a newtable for it, a tick stops its
\* beacon, and no step starts a beacon on a table without open seats.
C7_BeaconTermination ==
    /\ [][\A p \in Peers :
            (/\ out'.op \in {"beacon", "announceTable"} /\ out'.peer = p
             /\ Emptied(p, out'.arg))
            => /\ out'.sent = <<>>
               /\ net' = net
               /\ \A b \in beacons'[p] : beaconIDOf(b) # beaconIDOf(out'.arg)]_vars
    /\ [][\A p \in Peers : \A b \in beacons'[p] :
            b.requiredPID = <<>> => \E c \in beacons[p] : beaconIDOf(c) = beaconIDOf(b)]_vars

\* The beacon ticked on a table whose last seat was taken by a join.
C7_Witness ==
    /\ out.op = "beacon"
    /\ out.arg.requiredPID = <<>>
    /\ Len(out.arg.joinedPID) > 1
    /\ out.arg \notin beacons[out.peer]
    /\ \E t \in Range(joinedTables[out.peer]) : t = out.arg

\* The joined tables that are the table `tableObj`: same id, name and owner.
TheTable(t, tableObj) ==
    /\ t.tableID = tableObj.tableID
    /\ t.tableName = tableObj.tableName
    /\ t.ownerPID = tableObj.ownerPID

\* C8: a leaveJoinedTable call that succeeds takes the table out of the
\* caller's joined tables at once, and a peer that handles the leavetable of
\* a member M that has left (M holds no copy of the table and no message is
\* on its way to M) no longer lists M in joinedPID of its copy of that table.
C8_LeaveScenario ==
    /\ [][\A p \in Peers :
            (out'.op = "leaveJoinedTable" /\ out'.peer = p /\ out'.result = "true")
            => /\ Len(joinedTables'[p]) = Len(joinedTables[p]) - 1
               /\ \E i \in 1..Len(joinedTables[p]) :
                     /\ TheTable(joinedTables[p][i], out'.arg)
                     /\ joinedTables'[p] = Splice(joinedTables[p], i)]_vars
    /\ [][\A M \in Peers, q \in Peers :
            ( /\ HandledKind(M, q, "leavetable")
              /\ \A r \in Peers : net[<<r, M>>] = <<>>
              /\ \A u \in Range(joinedTables[M]) : ~TheTable(u, Head(net[<<M, q>>])) )
            => \A t \in Range(joinedTables'[q]) :
                  TheTable(t, Head(net[<<M, q>>])) => M \notin Range(t.joinedPID)]_vars

\* The step just taken handled, at B with capture switched on, a newtable
\* announcement sent by A; A is the only peer that announces, so every entry
\* of B's cache was announced by A.
CapturedFromA ==
    /\ HandledKind("A", "B", "newtable")
    /\ captureNewTables["B"]

\* captureTable returned false: no event, the cache as it was.
CaptureRejected ==
    /\ out'.events = <<>>
    /\ announcedTables'["B"] = announcedTables["B"]

\* C9: an announcement sent by A whose tableID is that of an entry of the
\* cache announced by A is rejected by captureTable (no newtable event, cache
\* unchanged), whatever ownerPID the announcement carries.
C9_DuplicateAnnouncement ==
    [][( /\ CapturedFromA
         /\ \E e \in Range(announcedTables["B"]) :
               e.tableID = Head(net[<<"A", "B">>]).tableID )
       => CaptureRejected]_vars

\* C10: with quota q = maxCapturesPerPeer, when the cache holds q or more
\* entries announced by A, each carrying ownerPID A, a further announcement by
\* A of a table of A with a tableID not in the cache is rejected by captureTable.
C10_PerPeerQuota ==
    [][( /\ CapturedFromA
         /\ Head(net[<<"A", "B">>]).ownerPID = "A"
         /\ \A e \in Range(announcedTables["B"]) :
               e.ownerPID = "A" /\ e.tableID # Head(net[<<"A", "B">>]).tableID
         /\ Len(announcedTables["B"]) >= maxCapturesPerPeer["B"] )
       => CaptureRejected]_vars

\* C11: when the cache holds exactly maxCapturedTables entries and
\* captureTable accepts an announcement, the cache afterwards has the new entry
\* first, then the former entries in their order, all but the last of them,
\* which is the one entry that is gone.
C11_CacheEviction ==
    [][( /\ CapturedFromA
         /\ Len(announcedTables["B"]) = maxCapturedTables["B"]
         /\ out'.events # <<>> )
       => LET old == announcedTables["B"]
              new == announcedTables'["B"]
          IN  /\ Len(new) = Len(old)
              /\ new[1] = Head(net[<<"A", "B">>])
              /\ \A i \in 2..Len(new) : new[i] = old[i - 1]
              /\ out'.value = <<old[Len(old)]>>]_vars

\* B has just captured an announcement into a cache of two entries that was
\* full, and the oldest entry was popped.
C11_Witness ==
    /\ out.op = "message" /\ out.peer = "B" /\ out.arg.data.cpMsg = "newtable"
    /\ out.events # <<>>
    /\ maxCapturedTables["B"] = 2
    /\ Len(announcedTables["B"]) = 2
    /\ announcedTables["B"][1] = out.arg.data
    /\ Len(out.value) = 1
    /\ out.value[1] # announcedTables["B"][2]

\* Table t passes every filter that is not null.
MatchesFilters(t, f) ==
    /\ f.tableName # Null => t.tableName = f.tableName
    /\ f.tableID # Null => t.tableID = f.tableID
    /\ f.ownerPID # Null => t.ownerPID = f.ownerPID

\* C12: getJoinedTables with at least one filter that is not null returns
\* exactly the joined tables that pass every such filter, and leaves the
\* joined tables as they were.
C12_GetJoinedTables ==
    [][\A p \in Peers :
        ( /\ out'.op = "getJoinedTables" /\ out'.peer = p
          /\ \/ out'.arg.tableName # Null
             \/ out'.arg.tableID # Null
             \/ out'.arg.ownerPID # Null )
        => /\ out'.result = "array"
           /\ out'.value = SelectSeq(joinedTables[p],
                                     LAMBDA t : MatchesFilters(t, out'.arg))
           /\ joinedTables' = joinedTables]_vars

\* C13: sendToTable by a connected peer returns false and sends nothing when
\* the table is not valid or the message is null; otherwise it returns true
\* and makes one p2p send of a tablemsg to the joinedPID of the table without
\* any occurrence of the local peer; joined tables, pending requests and cache
\* stay as they were either way.
C13_SendToTable ==
    [][\A p \in Peers :
        ( out'.op = "sendToTable" /\ out'.peer = p /\ connected[p] )
        => LET tableObj == out'.arg.table
               message == out'.arg.message
           IN  /\ IF ~isValidTable(tableObj) \/ message = Null
                  THEN /\ out'.result = "false"
                       /\ out'.sent = <<>>
                       /\ net' = net
                  ELSE /\ out'.result = "true"
                       /\ Len(out'.sent) = 1
                       /\ out'.sent[1].data.cpMsg = "tablemsg"
                       /\ out'.sent[1].data.message = message
                       /\ out'.sent[1].data.tableID = tableObj.tableID
                       /\ out'.sent[1].data.tableName = tableObj.tableName
                       /\ out'.sent[1].to =
                             SelectSeq(tableObj.joinedPID, LAMBDA pid : pid # p)
                       /\ net' = p2pSend(net, connected, p, out'.sent[1].data,
                                         out'.sent[1].to)
               /\ joinedTables' = joinedTables
               /\ joinTableRequests' = joinTableRequests
               /\ announcedTables' = announcedTables]_vars

\* A connected peer listed twice in joinedPID of a table has sent a message
\* to that table, and the tablemsg is on its way to the other member.
C13_Witness ==
    /\ out.op = "sendToTable" /\ out.result = "true"
    /\ connected[out.peer]
    /\ \E i, j \in 1..Len(out.arg.table.joinedPID) :
          /\ i # j
          /\ out.arg.table.joinedPID[i] = out.peer
          /\ out.arg.table.joinedPID[j] = out.peer
    /\ out.sent[1].to # <<>>
    /\ \E to \in Peers : net[<<out.peer, to>>] # <<>>
                          /\ net[<<out.peer, to>>][1].cpMsg = "tablemsg"

\* C14: createTable, joinTable, leaveJoinedTable and sendToTable called on a
\* peer that is not connected fail (the call throws, or the promise is
\* rejected), make no p2p send, start no timer or beacon, and leave the joined
\* tables, the pending requests and the openTables flag as they were.
C14_ConnectivityPrecondition ==
    [][\A p \in Peers :
        ( /\ out'.op \in {"createTable", "joinTable", "leaveJoinedTable", "sendToTable"}
          /\ out'.peer = p
          /\ ~connected[p] )
        => /\ out'.result \in {"thrown", "rejected"}
           /\ out'.sent = <<>>
           /\ net' = net
           /\ timers' = timers
           /\ beacons' = beacons
           /\ joinedTables' = joinedTables
           /\ joinTableRequests' = joinTableRequests
           /\ openTables' = openTables]_vars

\* A peer that is not connected called joinTable on a valid table with a free
\* seat, and the promise was rejected.
C14_Witness ==
    /\ out.op = "joinTable" /\ out.result = "rejected"
    /\ ~connected[out.peer]
    /\ isValidTable(out.arg)
    /\ slotAvailable(out.peer, out.arg)
    /\ joinTableRequests[out.peer] = <<>>

\* The step just taken changed the joined tables of out.peer: a createTable
\* that returned a table, a jointablerequest that filled a seat, or a
\* leaveJoinedTable of a table the peer owns.
RegistryMutated ==
    \/ out.op = "createTable" /\ out.result = "table"
    \/ out.op = "message" /\ out.arg.data.cpMsg = "jointablerequest" /\ out.sent # <<>>
    \/ out.op = "leaveJoinedTable" /\ out.result = "true" /\ out.arg.ownerPID = out.peer

\* Peer p owns a table of its registry that has a seat to fill.
HasOpenOwnedTable(p) ==
    \E t \in Range(joinedTables[p]) : t.ownerPID = p /\ t.requiredPID # <<>>

\* C15: after an operation that changes the joined tables (createTable with
\* any number of seats, the handling of a jointablerequest, leaveJoinedTable
\* of an owned table), openTables is true exactly when some owned table of the
\* registry has a non-empty requiredPID.
C15_OpenTablesFlag ==
    RegistryMutated => (openTables[out.peer] <=> HasOpenOwnedTable(out.peer))

\* The entries of s at the indices of keep, in order.
KeepAt(s, keep) ==
    LET F[i \in 0..Len(s)] ==
            IF i = 0 THEN <<>>
            ELSE IF i \in keep THEN Append(F[i - 1], s[i]) ELSE F[i - 1]
    IN  F[Len(s)]

\* n times x.
Repeat(x, n) == [i \in 1..n |-> x]

\* The seats of all the tables of a registry.
SeatsLeft(tables) ==
    LET F[i \in 0..Len(tables)] ==
            IF i = 0 THEN 0 ELSE F[i - 1] + Len(tables[i].requiredPID)
    IN  F[Len(tables)]

\* C16: a peer p that handles a jointablerequest from R changes only owned
\* tables with the tableID and tableName of the request; on such a table every
\* seat taken out of requiredPID was R's or a wildcard and is matched by one
\* R appended to joinedPID, so that Len(requiredPID) + Len(joinedPID) stays;
\* and for every seat taken one jointable carrying the table as updated is
\* sent to all of its joinedPID but p, R among them.
C16_JoinFulfilment ==
    [][\A p \in Peers, R \in Peers :
        HandledKind(R, p, "jointablerequest")
        => LET message == Head(net[<<R, p>>])
               old == joinedTables[p]
               new == joinedTables'[p]
           IN  /\ Len(new) = Len(old)
               /\ \A i \in 1..Len(old) :
                     IF old[i].ownerPID = p /\ SameTable(old[i], message)
                     THEN /\ \E keep \in SUBSET (1..Len(old[i].requiredPID)) :
                               /\ new[i].requiredPID = KeepAt(old[i].requiredPID, keep)
                               /\ \A k \in (1..Len(old[i].requiredPID)) \ keep :
                                     old[i].requiredPID[k] \in {R, Wildcard}
                          /\ new[i].joinedPID = old[i].joinedPID \o
                                Repeat(R, Len(old[i].requiredPID) - Len(new[i].requiredPID))
                          /\ Len(new[i].requiredPID) + Len(new[i].joinedPID)
                                = Len(old[i].requiredPID) + Len(old[i].joinedPID)
                          /\ new[i] = [old[i] EXCEPT !.requiredPID = new[i].requiredPID,
                                                     !.joinedPID = new[i].joinedPID]
                          /\ new[i] # old[i]
                             => \E j \in 1..Len(out'.sent) :
                                   out'.sent[j].data = buildCPMessage("jointable", new[i])
                     ELSE new[i] = old[i]
               /\ Len(out'.sent) = SeatsLeft(old) - SeatsLeft(new)
               /\ \A j \in 1..Len(out'.sent) :
                     /\ out'.sent[j].data.cpMsg = "jointable"
                     /\ SameTable(out'.sent[j].data, message)
                     /\ out'.sent[j].to =
                           SelectSeq(out'.sent[j].data.joinedPID, LAMBDA pid : pid # p)
                     /\ R \in Range(out'.sent[j].to)
               /\ net' = applySends([net EXCEPT ![<<R, p>>] = Tail(@)], connected, p,
                                    out'.sent)]_vars

\* An owner has just given a seat to a requester that was a member already
\* and sent the jointable with the table as it is now in its registry.
C16_Witness ==
    /\ out.op = "message" /\ out.arg.data.cpMsg = "jointablerequest"
    /\ Len(out.sent) = 1
    /\ out.arg.from \in Range(out.arg.data.joinedPID)
    /\ \E t \in Range(joinedTables[out.peer]) :
          /\ t.ownerPID = out.peer
          /\ out.sent[1].data = buildCPMessage("jointable", t)
          /\ Len(t.joinedPID) = 3

\* C17: in no step does requiredPID of a table in its owner's registry get
\* an entry: what the owner holds after the step for (tableID, tableName) is
\* what it held before with some entries taken out, whether the step is an
\* operation, a join request, a jointable or a leavetable.
C17_RequiredOnlyShrinks ==
    [][\A p \in Peers :
        \A new \in Range(joinedTables'[p]) : \A old \in Range(joinedTables[p]) :
            ( new.ownerPID = p /\ TheTable(old, new) )
            => \E keep \in SUBSET (1..Len(old.requiredPID)) :
                  new.requiredPID = KeepAt(old.requiredPID, keep)]_vars

\* An owner has just handled the leavetable of a member of its table, which
\* had no seat left and has none now.
C17_Witness ==
    /\ out.op = "message" /\ out.arg.data.cpMsg = "leavetable"
    /\ out.events # <<>>
    /\ \E t \in Range(joinedTables[out.peer]) :
          /\ t.ownerPID = out.peer
          /\ SameTable(t, out.arg.data)
          /\ out.arg.data.ownerPID = out.peer
          /\ t.requiredPID = <<>>
          /\ out.arg.from \notin Range(t.joinedPID)

\* C18: every table of every peer's joined tables lists its ownerPID in
\* joinedPID, also in the registries of the members after the owner has left
\* the table.
C18_OwnerIsMember ==
    \A p \in Peers : \A t \in Range(joinedTables[p]) :
        t.ownerPID \in Range(t.joinedPID)

\* C19: every table of a peer's joined tables lists that peer in joinedPID,
\* be it a table the peer created or one it joined, also after a jointable
\* has replaced it or a leavetable has taken a member out.
C19_SelfIsMember ==
    \A p \in Peers : \A t \in Range(joinedTables[p]) : p \in Range(t.joinedPID)

\* A member has just replaced its copy of a table by that of a new jointable.
C19_Witness ==
    /\ out.op = "message" /\ out.arg.data.cpMsg = "jointable"
    /\ out.result # "resolved" /\ out.events # <<>>
    /\ \E t \in Range(joinedTables[out.peer]) :
          /\ t = copyTable(out.arg.data)
          /\ t.ownerPID # out.peer
          /\ out.peer \in Range(t.joinedPID)

\* C20: whatever changes were made to maxCapturedTables, when captureTable
\* has returned, here after capturing a table of A into a cache of tables of
\* A, the cache holds no more than maxCapturedTables entries.
C20_CacheBound ==
    [][( /\ CapturedFromA
         /\ out'.events # <<>>
         /\ \A e \in Range(announcedTables'["B"]) : e.ownerPID = "A" )
       => Len(announcedTables'["B"]) <= maxCapturedTables'["B"]]_vars

\* The timer of request r of peer p is still armed.
TimerArmed(p, r) == \E t \in timers[p] : t.joinTimeoutID = r.joinTimeoutID

\* C21: a pending request leaves the pending list only in the step that
\* accepts it (a jointable of its owner for its table, resolving the
\* promise) or in the step of its own timeout (rejecting the promise); the
\* timeout never runs for a request that is no longer pending; and a request
\* whose timeout has run is not accepted by a later jointable.
C21_AcceptedOrTimedOut ==
    [][\A p \in Peers :
        /\ \A r \in Range(joinTableRequests[p]) :
              r \notin Range(joinTableRequests'[p])
              => \/ /\ HandledKind(r.ownerPID, p, "jointable")
                    /\ RequestFor(r, r.ownerPID, Head(net[<<r.ownerPID, p>>]))
                    /\ out'.result = "resolved"
                 \/ /\ out'.op = "onJoinTableRequestTimeout" /\ out'.peer = p
                    /\ out'.arg = r
                    /\ out'.result = "rejected"
        /\ (out'.op = "onJoinTableRequestTimeout" /\ out'.peer = p /\ timers'[p] # timers[p])
              => out'.arg \in Range(joinTableRequests[p])
        /\ \A from \in Peers :
              ( /\ HandledKind(from, p, "jointable")
                /\ out'.result = "resolved" )
              => \A r \in Range(joinTableRequests[p]) :
                    r \notin Range(joinTableRequests'[p]) => TimerArmed(p, r)]_vars

\* The message kinds that handleP2PMessage has a case for.
RecognizedKinds == {"newtable", "jointablerequest", "jointable", "tablemsg", "leavetable"}

\* The event is not a CypherPoker message, or one of a kind without a case,
\* or a tablemsg.
PassedOver(event) ==
    \/ ~isCPMsgEvent(event)
    \/ event.data.result.data.cpMsg \notin RecognizedKinds
    \/ event.data.result.data.cpMsg = "tablemsg"

IsTableMsg(event) ==
    isCPMsgEvent(event) /\ event.data.result.data.cpMsg = "tablemsg"

\* C22: an event that fails the envelope test, or carries a message kind
\* without a case, or is a tablemsg, leaves joined tables, pending requests,
\* cache and openTables as they were and sends nothing; an event is dispatched
\* for the tablemsg and for nothing else of these.
C22_PassedOverEvents ==
    [][\A p \in Peers :
        /\ ( out'.op = "event" /\ out'.peer = p /\ PassedOver(out'.arg) )
           => /\ joinedTables' = joinedTables
              /\ joinTableRequests' = joinTableRequests
              /\ announcedTables' = announcedTables
              /\ openTables' = openTables
              /\ out'.sent = <<>>
              /\ net' = net
              /\ (out'.events # <<>>) <=> IsTableMsg(out'.arg)
        /\ \A from \in Peers :
              HandledKind(from, p, "tablemsg")
              => /\ joinedTables' = joinedTables
                 /\ joinTableRequests' = joinTableRequests
                 /\ announcedTables' = announcedTables
                 /\ openTables' = openTables
                 /\ out'.sent = <<>>
                 /\ net' = [net EXCEPT ![<<from, p>>] = Tail(@)]
                 /\ out'.events = <<ownEvent(from, Head(net[<<from, p>>]))>>]_vars

\* A member of a table with a pending request, a cached announcement or an
\* open table has just handled a tablemsg sent to the table by the other.
C22_Witness ==
    /\ out.op = "message" /\ out.arg.data.cpMsg = "tablemsg"
    /\ out.events # <<>>
    /\ joinedTables[out.peer] # <<>>
    /\ \E t \in Range(joinedTables[out.peer]) :
          SameTable(t, out.arg.data) /\ out.arg.from \in Range(t.joinedPID)

\* C23: no peer id occurs twice in joinedPID of a table of any peer's joined
\* tables, however many seats the table was created with and however often a
\* peer asks to join.
C23_NoDuplicateMember ==
    \A p \in Peers : \A t \in Range(joinedTables[p]) :
        \A i, j \in 1..Len(t.joinedPID) : t.joinedPID[i] = t.joinedPID[j] => i = j

\* C24: with a request pending for one (ownerPID, tableID), joinTable of a
\* connected peer on a valid table of another (ownerPID, tableID) with a seat
\* for the peer puts a second request in the pending list, arms its timer and
\* sends a jointablerequest to the owner of that table.
C24_PendingDoesNotBlock ==
    [][\A p \in Peers :
        ( /\ out'.op = "joinTable" /\ out'.peer = p
          /\ connected[p]
          /\ isValidTable(out'.arg)
          /\ slotAvailable(p, out'.arg)
          /\ joinTableRequests[p] # <<>>
          /\ \A r \in Range(joinTableRequests[p]) :
                ~(r.ownerPID = out'.arg.ownerPID /\ r.tableID = out'.arg.tableID) )
        => /\ out'.result = "pending"
           /\ Len(joinTableRequests'[p]) = Len(joinTableRequests[p]) + 1
           /\ \E r \in Range(joinTableRequests'[p]) :
                 /\ TheTable(r, out'.arg)
                 /\ \E t \in timers'[p] : t.joinTimeoutID = r.joinTimeoutID
           /\ Len(out'.sent) = 1
           /\ out'.sent[1].data.cpMsg = "jointablerequest"
           /\ out'.sent[1].to = <<out'.arg.ownerPID>>]_vars

\* No message is on its way to any peer and no peer has a join request pending.
Quiescent ==
    /\ \A from \in Peers, to \in Peers : net[<<from, to>>] = <<>>
    /\ \A p \in Peers : joinTableRequests[p] = <<>>

\* C25: when no message is in flight and no join is pending, every copy of a
\* table held by a peer lists the same set of peers in joinedPID as the copy
\* its owner holds.
C25_ViewConvergence ==
    Quiescent =>
        \A p \in Peers : \A t \in Range(joinedTables[p]) :
            \A u \in Range(joinedTables[t.ownerPID]) :
                TheTable(u, t) => Range(t.joinedPID) = Range(u.joinedPID)

\* C26: when no message is in flight and no join is pending, a peer other
\* than the owner is in joinedPID of the owner's copy of a table exactly when
\* that peer's own joined tables contain the table.
C26_MembershipAgreement ==
    Quiescent =>
        \A owner \in Peers : \A t \in Range(joinedTables[owner]) :
            t.ownerPID = owner =>
                \A B \in Peers \ {owner} :
                    B \in Range(t.joinedPID)
                        <=> \E u \in Range(joinedTables[B]) : TheTable(u, t)

\* C27: a beacon broadcasts the newtable announcement of a table only while
\* the table is in the joined tables of its owner: once the owner has left its
\* own table with leaveJoinedTable, no tick of the beacon sends anything.
C27_BeaconOnlyWhileHeld ==
    [][\A p \in Peers :
        (out'.op = "beacon" /\ out'.peer = p /\ out'.sent # <<>>)
        => \E t \in Range(joinedTables[p]) : TheTable(t, out'.arg)]_vars

\* C28: whenever a peer owns a joined table with a non-empty requiredPID, its
\* openTables is true; a jointablerequest for an owned table with a seat for
\* the sender is therefore never dropped by the openTables test: the sender is
\* seated and is sent the jointable.
C28_OpenTablesCoversOwned ==
    /\ [](\A p \in Peers : HasOpenOwnedTable(p) => openTables[p])
    /\ [][\A from \in Peers, p \in Peers : \A i \in 1..Len(joinedTables[p]) :
            ( /\ HandledKind(from, p, "jointablerequest")
              /\ joinedTables[p][i].ownerPID = p
              /\ SameTable(joinedTables[p][i], Head(net[<<from, p>>]))
              /\ ~NoSlotFor(from, joinedTables[p][i]) )
            => /\ Len(joinedTables'[p][i].joinedPID) > Len(joinedTables[p][i].joinedPID)
               /\ from \in Range(joinedTables'[p][i].joinedPID)
               /\ \E k \in 1..Len(out'.sent) :
                     /\ out'.sent[k].data.cpMsg = "jointable"
                     /\ from \in Range(out'.sent[k].to)]_vars

\* A jointablerequest was handled by the owner of a table that had seats left:
\* the sender was seated, a seat is still open and openTables is true.
C28_Witness ==
    /\ out.op = "message"
    /\ out.arg.data.cpMsg = "jointablerequest"
    /\ out.sent # <<>>
    /\ \E t \in Range(joinedTables[out.peer]) :
          /\ t.ownerPID = out.peer
          /\ SameTable(t, out.arg.data)
          /\ out.arg.from \in Range(t.joinedPID)
          /\ t.requiredPID # <<>>
    /\ openTables[out.peer]

\* C29: the handling of a jointable replaces a joined table only when the
\* sender is the ownerPID of that table; a jointable of any other peer with
\* the same tableID and tableName leaves the joined table as it was.
C29_OnlyOwnerReplaces ==
    [][\A from \in Peers, p \in Peers : \A i \in 1..Len(joinedTables[p]) :
        ( /\ HandledKind(from, p, "jointable")
          /\ SameTable(joinedTables[p][i], Head(net[<<from, p>>]))
          /\ joinedTables[p][i].ownerPID # from )
        => /\ Len(joinedTables'[p]) >= i
           /\ joinedTables'[p][i] = joinedTables[p][i]]_vars

====
